---- MODULE Spec2Model ----
(***************************************************************************)
(* Model of the personal tax optimizer (src/src/main.rs).                  *)
(*                                                                         *)
(* Amounts (f64 in the source) are modelled as exact integers in currency  *)
(* units; ratios (f64 in [0,1]) as integer percents, so every tax value    *)
(* of the model is the source's value times 100.  Floating-point rounding  *)
(* is not modelled: the model covers amounts that f64 represents exactly.  *)
(***************************************************************************)
EXTENDS Integers, Sequences, FiniteSets, TLC

\* ---------------------------------------------------------------- bounds
MaxBonus == 25          \* largest year_bonus given on the command line
MaxRules == 2           \* longest rule list of a configuration section

\* ------------------------------------------------------ program constants
Step == 10              \* r.adjust(10.0)
Months == 12            \* "* 12.0" and "/ 12.0" in calc

\* ------------------------------------------------------------ input sets
SalaryBounds == {10, 20}
BonusBounds == {1, 3}
Ratios == {10, 20}
MonthlySalaries == {1}
MonthlyDeductions == {0, 2}
YearBonuses == (0 .. MaxBonus) \cup {0 - 1}

\* no error
None == "none"

\* Option<T>: <<>> is None, <<x>> is Some(x)
NoneOpt == <<>>
Some(x) == <<x>>

Min(a, b) == IF a <= b THEN a ELSE b
Max(a, b) == IF a >= b THEN a ELSE b

\* (x / d).ceil() for d > 0 (\div rounds towards minus infinity)
CeilDiv(x, d) == 0 - ((0 - x) \div d)

\* ---------------------------------------------------------- parse_record
parse_record(tokens) ==
    [monthly_salary |-> tokens[1],
     monthly_tax_deduction |-> tokens[2],
     year_bonus |-> tokens[3],
     movement |-> 0]

\* --------------------------------------------------------- Record::adjust
BudgetValid_strict(budget) == budget >= Step
BudgetValid(budget) == budget > 0

AdjustBudget_nomin(rec, budget) == budget
AdjustBudget(rec, budget) == Min(rec.year_bonus, budget)

AdjustApply_fullstep(rec, budget, asked) ==
    [rec EXCEPT !.year_bonus = @ - budget, !.movement = @ + asked]
AdjustApply(rec, budget, asked) ==
    [rec EXCEPT !.year_bonus = @ - budget, !.movement = @ + budget]

\* Ok(()) with the mutated record, or the error message of ensure!
adjust(rec, asked) ==
    LET budget == AdjustBudget(rec, asked)
    IN IF BudgetValid(budget)
       THEN [ok |-> TRUE, rec |-> AdjustApply(rec, budget, asked)]
       ELSE [ok |-> FALSE, msg |-> "budget is invalid"]

\* -------------------------------------------------------------------- Tax
Total(tax) == tax.salary + tax.year_bonus

\* ------------------------------------------------------------- BTreeMap
\* A BTreeMap<i32, f64> is a function from its key set to the ratios; it
\* is iterated in ascending key order.
EmptyMap == [k \in {} |-> 0]

Insert(map, k, val) ==
    [x \in (DOMAIN map) \cup {k} |-> IF x = k THEN val ELSE map[x]]

MinOf(S) == CHOOSE x \in S : \A y \in S : x <= y

RECURSIVE SortedKeys(_)
SortedKeys(S) ==
    IF S = {} THEN <<>>
    ELSE <<MinOf(S)>> \o SortedKeys(S \ {MinOf(S)})

\* ---------------------------------------------------- TaxConfig::try_from
\* a rule: what as_integer() gives for its bound, as_float() for its ratio
\* (a rule whose bound is not an integer fails whatever its ratio is, and
\* one whose ratio is not a float fails whatever its bound is: one of each)
RuleEntries(bounds) ==
    [bound : {Some(b) : b \in bounds}, ratio : {Some(q) : q \in Ratios}]
    \cup {[bound |-> NoneOpt, ratio |-> NoneOpt],
          [bound |-> Some(MinOf(bounds)), ratio |-> NoneOpt]}

RECURSIVE SeqsUpTo(_, _)
SeqsUpTo(S, n) ==
    IF n = 0 THEN {<<>>}
    ELSE LET shorter == SeqsUpTo(S, n - 1)
         IN shorter \cup {Append(s, e) : s \in {t \in shorter : Len(t) = n - 1}, e \in S}

\* the value under "rule": what as_array() gives for it
RuleLists(bounds) ==
    {Some(l) : l \in SeqsUpTo(RuleEntries(bounds), MaxRules)} \cup {NoneOpt}

\* the closure `parse`: Ok(map) or the first error
RECURSIVE parseFrom(_, _, _)
parseFrom(rules, i, ret) ==
    IF i > Len(rules) THEN [ok |-> TRUE, map |-> ret]
    ELSE IF rules[i].bound = NoneOpt THEN [ok |-> FALSE, msg |-> "missing bound"]
    ELSE IF rules[i].ratio = NoneOpt THEN [ok |-> FALSE, msg |-> "missing ratio"]
    ELSE parseFrom(rules, i + 1, Insert(ret, rules[i].bound[1], rules[i].ratio[1]))

parse(rule) ==
    IF rule = NoneOpt THEN [ok |-> FALSE, msg |-> "rule is not an array"]
    ELSE parseFrom(rule[1], 1, EmptyMap)

try_from(tbl) ==
    LET s == parse(tbl.salary)
        b == parse(tbl.year_bonus)
    IN IF ~s.ok THEN s
       ELSE IF ~b.ok THEN b
       ELSE [ok |-> TRUE, cfg |-> [salary |-> s.map, year_bonus |-> b.map]]

\* --------------------------------------------------------- TaxConfig::calc
TotalSalary(rec) ==
    rec.movement + Max(0, rec.monthly_salary - rec.monthly_tax_deduction) * Months

BracketBudget_nomin(rb, total_salary, last) == rb - last
BracketBudget(rb, total_salary, last) == Min(rb, total_salary) - last

RECURSIVE SalaryLoop(_, _, _, _, _, _)
SalaryLoop(map, keys, i, total_salary, last, salary_tax) ==
    IF i > Len(keys) THEN salary_tax
    ELSE LET rb == keys[i]
             budget == BracketBudget(rb, total_salary, last)
             acc == salary_tax + budget * map[rb]
         IN IF rb >= total_salary THEN acc
            ELSE SalaryLoop(map, keys, i + 1, total_salary, rb, acc)

SalaryTax(map, total_salary) ==
    SalaryLoop(map, SortedKeys(DOMAIN map), 1, total_salary, 0, 0)

MonthlyEquivalent_floor(year_bonus) == year_bonus \div Months
MonthlyEquivalent(year_bonus) == CeilDiv(year_bonus, Months)

\* lower_bound(Included(key)): position of the first key >= key
RECURSIVE LowerBound(_, _, _)
LowerBound(keys, i, key) ==
    IF i > Len(keys) \/ keys[i] >= key THEN i
    ELSE LowerBound(keys, i + 1, key)

\* cursor.peek_next(): the entry at the cursor, or None past the end
PeekNext(map, keys, i) ==
    IF i <= Len(keys) THEN Some(<<keys[i], map[keys[i]]>>) ELSE NoneOpt

BonusLookup(map, year_bonus) ==
    LET keys == SortedKeys(DOMAIN map)
    IN PeekNext(map, keys, LowerBound(keys, 1, MonthlyEquivalent(year_bonus)))

\* the Tax returned, or a panic when unwrap() meets None
calc(cfg, rec) ==
    LET salary_tax == SalaryTax(cfg.salary, TotalSalary(rec))
        next == BonusLookup(cfg.year_bonus, rec.year_bonus)
    IN IF next = NoneOpt THEN [panic |-> TRUE]
       ELSE [panic |-> FALSE,
             tax |-> [salary |-> salary_tax,
                      year_bonus |-> next[1][2] * rec.year_bonus]]

\* ------------------------------------------------------------------- main
Better_inverted(v, best) == Total(v) > Total(best)
Better_orEqual(v, best) == Total(v) <= Total(best)
Better(v, best) == Total(v) < Total(best)

LoopGuard_inclusive(rec) == rec.year_bonus >= 0
LoopGuard(rec) == rec.year_bonus > 0

VARIABLES
    pc,            \* position in main
    args_record,   \* args.record
    tax_config,    \* tax_config (NoConfig until try_from returns it)
    before,        \* the Tax printed on the "Before:" line (NoTax until then)
    payment,       \* payment (NoTax until the first calc)
    r,             \* r (args.record, moved into r before the loop)
    movement,      \* movement
    v,             \* v, the Tax of the last calc of the loop (NoTax until then)
    err,           \* the error main returns, None when there is none
    iters,         \* completed iterations of the while loop
    adjust_calls   \* calls of Record::adjust

vars == <<pc, args_record, tax_config, before, payment, r, movement, v, err,
          iters, adjust_calls>>

\* placeholders of the values main has not computed yet
NoTax == [salary |-> 0, year_bonus |-> 0]
NoConfig == [salary |-> EmptyMap, year_bonus |-> EmptyMap]

Init ==
    /\ pc = "config"
    /\ args_record \in {parse_record(<<ms, d, b>>) :
                          ms \in MonthlySalaries, d \in MonthlyDeductions,
                          b \in YearBonuses}
    /\ tax_config = NoConfig
    /\ before = NoTax
    /\ payment = NoTax
    /\ r = args_record
    /\ movement = 0
    /\ v = NoTax
    /\ err = None
    /\ iters = 0
    /\ adjust_calls = 0

\* let tax_config = TaxConfig::try_from(raw_config)?;
LoadConfig ==
    /\ pc = "config"
    /\ \E raw_config \in [salary : RuleLists(SalaryBounds),
                          year_bonus : RuleLists(BonusBounds)] :
          LET res == try_from(raw_config)
          IN IF res.ok
             THEN /\ tax_config' = res.cfg
                  /\ pc' = "baseline"
                  /\ err' = err
             ELSE /\ tax_config' = tax_config
                  /\ pc' = "error"
                  /\ err' = res.msg
    /\ UNCHANGED <<args_record, before, payment, r, movement, v, iters, adjust_calls>>

\* let mut payment = tax_config.calc(&args.record); println!; let mut r; let mut movement
Baseline ==
    /\ pc = "baseline"
    /\ LET res == calc(tax_config, args_record)
       IN IF res.panic
          THEN /\ pc' = "panicked"
               /\ UNCHANGED <<before, payment, r>>
          ELSE /\ pc' = "loop"
               /\ payment' = res.tax
               /\ before' = res.tax
               /\ r' = args_record
    /\ movement' = 0
    /\ UNCHANGED <<args_record, tax_config, v, err, iters, adjust_calls>>

\* one iteration of the while loop
Iterate ==
    /\ pc = "loop"
    /\ LoopGuard(r)
    /\ adjust_calls' = adjust_calls + 1
    /\ LET adj == adjust(r, Step)
       IN IF ~adj.ok
          THEN /\ pc' = "error"
               /\ err' = adj.msg
               /\ UNCHANGED <<payment, r, movement, v, iters>>
          ELSE LET res == calc(tax_config, adj.rec)
               IN /\ r' = adj.rec
                  /\ err' = err
                  /\ IF res.panic
                     THEN /\ pc' = "panicked"
                          /\ UNCHANGED <<payment, movement, v, iters>>
                     ELSE /\ pc' = pc
                          /\ v' = res.tax
                          /\ iters' = iters + 1
                          /\ IF Better(res.tax, payment)
                             THEN /\ payment' = res.tax
                                  /\ movement' = adj.rec.movement
                             ELSE UNCHANGED <<payment, movement>>
    /\ UNCHANGED <<args_record, tax_config, before>>

\* the loop condition is false: println!("After: ..."); Ok(())
Finish ==
    /\ pc = "loop"
    /\ ~LoopGuard(r)
    /\ pc' = "done"
    /\ UNCHANGED <<args_record, tax_config, before, payment, r, movement, v, err,
                   iters, adjust_calls>>

Next == LoadConfig \/ Baseline \/ Iterate \/ Finish

Spec == Init /\ [][Next]_vars

\* main runs to its end: no step of it waits on anything
FairSpec == Spec /\ WF_vars(Next)

\* ================================================================ claims
B == args_record.year_bonus

InLoop == pc \in {"loop", "done"}

\* the record of the sweep point with movement mv
RecordAt(mv) == [args_record EXCEPT !.movement = mv, !.year_bonus = B - mv]
TotalAt(mv) == Total(calc(tax_config, RecordAt(mv)).tax)

\* the swept points: movement 0, 10, 20, ..., B
Swept == {Min(k * Step, B) : k \in 0 .. CeilDiv(B, Step)}

\* C1: in every state of the optimization loop and at its end, the total of
\* the retained best Tax is at most the total of the baseline Tax.
C1_BestNeverWorse ==
    (InLoop /\ B >= 0) => Total(payment) <= Total(before)

C1_Witness ==
    pc = "done" /\ B >= 0 /\ iters >= 2 /\ Total(payment) < Total(before)

\* C2: at the end of the loop the reported pair is the first minimum of the
\* sweep: the reported Tax is the Tax of the reported movement, its total is
\* the least total over the swept points, and the reported movement is the
\* smallest swept movement with that total.
C2_FirstMinimum ==
    (pc = "done" /\ B >= 0) =>
        /\ movement \in Swept
        /\ payment = calc(tax_config, RecordAt(movement)).tax
        /\ \A x \in Swept : Total(payment) <= TotalAt(x)
        /\ \A x \in Swept : TotalAt(x) = Total(payment) => movement <= x

\* a tie: a later sweep point has the reported total
C2_Witness ==
    /\ pc = "done" /\ B >= 0
    /\ \E x \in Swept : x > movement /\ TotalAt(x) = Total(payment)
    /\ movement > 0

\* C3: the salary tax is the sum over the brackets of
\* r_i * (min(t_i, S) - min(t_(i-1), S)) with t_0 = 0, so that income above
\* the largest threshold adds no tax.
PrevBound(keys, t) ==
    IF \E u \in keys : u < t
    THEN CHOOSE u \in keys : u < t /\ \A w \in keys : w < t => w <= u
    ELSE 0

RECURSIVE BracketSum(_, _, _)
BracketSum(map, todo, S) ==
    IF todo = {} THEN 0
    ELSE LET t == CHOOSE x \in todo : TRUE
         IN map[t] * (Min(t, S) - Min(PrevBound(DOMAIN map, t), S))
            + BracketSum(map, todo \ {t}, S)

SalaryFormula(map, S) == BracketSum(map, DOMAIN map, S)

MaxOf(S) == CHOOSE x \in S : \A y \in S : x >= y

C3_SalaryTaxFormula ==
    InLoop =>
        LET map == tax_config.salary
        IN /\ before.salary = SalaryFormula(map, TotalSalary(args_record))
           /\ iters > 0 =>
                /\ v.salary = SalaryFormula(map, TotalSalary(r))
                /\ (DOMAIN map # {} /\ TotalSalary(r) > MaxOf(DOMAIN map)) =>
                       v.salary = SalaryFormula(map, MaxOf(DOMAIN map))

\* income above the largest of two thresholds, after a move
C3_Witness ==
    /\ InLoop /\ iters > 0
    /\ Cardinality(DOMAIN tax_config.salary) = 2
    /\ TotalSalary(r) > MaxOf(DOMAIN tax_config.salary)
    /\ v.salary > 0

\* C4: when the bonus table has a threshold >= m = ceil(year_bonus / 12), the
\* bonus tax is r * year_bonus for the ratio r of the smallest such
\* threshold.
HasBracket(map, yb) == \E t \in DOMAIN map : t * Months >= yb

FlatRatio(map, yb) ==
    map[CHOOSE t \in DOMAIN map :
            /\ t * Months >= yb
            /\ \A u \in DOMAIN map : u * Months >= yb => t <= u]

C4_BonusTaxFlat ==
    InLoop =>
        LET map == tax_config.year_bonus
        IN /\ (B >= 0 /\ HasBracket(map, B)) =>
                before.year_bonus = FlatRatio(map, B) * B
           /\ (iters > 0 /\ r.year_bonus >= 0 /\ HasBracket(map, r.year_bonus)) =>
                v.year_bonus = FlatRatio(map, r.year_bonus) * r.year_bonus

\* a bonus in the lower of two brackets, exactly at its threshold
C4_Witness ==
    /\ InLoop /\ iters > 0
    /\ Cardinality(DOMAIN tax_config.year_bonus) = 2
    /\ r.year_bonus = Months * MinOf(DOMAIN tax_config.year_bonus)
    /\ v.year_bonus > 0

\* C5: when no threshold of the bonus table is >= m, the calculation ends
\* with an error value that main returns, as its other errors do.
\* (stated for a non-empty bonus table, whose largest threshold the bonus
\* exceeds)
ConfigLoaded ==
    pc \in {"loop", "done", "panicked"} \/ (pc = "error" /\ err = "budget is invalid")

C5_LookupErrorReturned ==
    (/\ ConfigLoaded
     /\ DOMAIN tax_config.year_bonus # {}
     /\ ~HasBracket(tax_config.year_bonus, B)) =>
        pc = "error" /\ err = "LookupError"

\* C6: movement + year_bonus of the optimizer's record is the original bonus.
C6_Conservation ==
    (InLoop /\ B >= 0) => r.movement + r.year_bonus = B

\* a last move smaller than the step
C6_Witness ==
    InLoop /\ B >= 0 /\ iters >= 2 /\ r.year_bonus = 0 /\ r.movement % Step # 0

\* C7: every TaxConfig that try_from returns has a non-empty salary table and
\* a non-empty bonus table (an empty rule list is a ConfigError).
C7_TablesNonEmpty ==
    (pc # "config" /\ pc # "error") =>
        /\ DOMAIN tax_config.salary # {}
        /\ DOMAIN tax_config.year_bonus # {}

\* C8: the loop ends after exactly ceil(B / 10) iterations, each moving
\* min(remaining year_bonus, 10), with year_bonus = 0 and movement = B.
C8_Terminates ==
    /\ []((pc = "done" /\ B >= 0) =>
             iters = CeilDiv(B, Step) /\ r.year_bonus = 0 /\ r.movement = B)
    /\ [][(pc = "loop" /\ B >= 0 /\ r' # r) =>
             /\ r'.movement = r.movement + Min(r.year_bonus, Step)
             /\ r'.year_bonus = r.year_bonus - Min(r.year_bonus, Step)
             /\ iters' = iters + 1]_vars
    /\ ((pc = "loop" /\ B >= 0) ~> (pc = "done"))

C8_Witness ==
    pc = "done" /\ B >= 0 /\ iters = 3 /\ r.year_bonus = 0 /\ r.movement = B

\* C9: the failure of the move attempt never ends main as an error.
C9_BudgetErrorNeverReturned ==
    ~(pc = "error" /\ err = "budget is invalid")

\* the budget is used up by successful moves and main ends normally
C9_Witness ==
    pc = "done" /\ adjust_calls > 0 /\ r.year_bonus = 0 /\ err = None

\* C10 as stated: with year_bonus = 0 the move attempt is made and fails, and
\* the baseline is returned with movement 0.
C10_EndsByFailedMove ==
    (pc = "done" /\ B = 0) =>
        adjust_calls = 1 /\ iters = 0 /\ payment = before /\ movement = 0

\* C10 amended: with year_bonus = 0 the loop condition is false at once, no
\* move attempt is made, and the baseline is returned with movement 0.
C10_EndsByGuard ==
    B = 0 =>
        /\ adjust_calls = 0 /\ iters = 0 /\ movement = 0
        /\ err # "budget is invalid"
        /\ InLoop => (payment = before /\ r = args_record)

C10_Witness ==
    pc = "done" /\ B = 0 /\ adjust_calls = 0 /\ payment = before

====
